---- MODULE Spec2Model ----
(***************************************************************************)
(* A model of .github/workflows/auto_update_price_and_context_window/      *)
(* update_groq.py: the table extractor (_extract_table_data), the          *)
(* aggregator (scrape_groq_main), the raw-text merger                      *)
(* (_insert_dict_in_raw_json, _update_deprecated_models_in_raw_json) and   *)
(* the orchestrator main().                                                *)
(*                                                                         *)
(* The registry text is a sequence of tokens, fine enough for the two      *)
(* regular expressions of the merger to be evaluated on it as Python's     *)
(* re.sub evaluates them on the characters:                                *)
(*   LB  {      RB  }      COMMA  ,                                        *)
(*   Ws(nl, n)  a run of white space: a line break (nl) and n blanks       *)
(*   Key(id)    "groq/<id>":   a quoted key and its colon                  *)
(*   Fld(k, v)  "k": v         a member with a scalar value                *)
(* A model identifier is the sequence of the characters that follow the    *)
(* common prefix "groq/".                                                  *)
(***************************************************************************)
EXTENDS Integers, Sequences, FiniteSets, TLC

(***************************************************************************)
(* Identifiers and their order (Python compares str by code point).        *)
(***************************************************************************)
IdA == <<"a">>
IdM1 == <<"m", "-", "1">>
IdM2 == <<"m", ".", "1">>
Ids == {IdA, IdM1, IdM2}

Code(c) ==
  CASE c = "-" -> 45
    [] c = "." -> 46
    [] c = "1" -> 49
    [] c = "a" -> 97
    [] c = "m" -> 109

RECURSIVE StrLess(_, _)
StrLess(x, y) ==
  IF y = <<>> THEN FALSE
  ELSE IF x = <<>> THEN TRUE
  ELSE IF Head(x) = Head(y) THEN StrLess(Tail(x), Tail(y))
  ELSE Code(Head(x)) < Code(Head(y))

\* list.sort() on a list of str: insertion of each key at its place.
RECURSIVE SortInsert(_, _)
SortInsert(k, s) ==
  IF s = <<>> THEN <<k>>
  ELSE IF StrLess(Head(s), k) THEN <<Head(s)>> \o SortInsert(k, Tail(s))
  ELSE <<k>> \o s

RECURSIVE SortKeys(_)
SortKeys(s) == IF s = <<>> THEN <<>> ELSE SortInsert(Head(s), SortKeys(Tail(s)))

\* list.index(x): the first position of x.
IndexOf(s, x) == CHOOSE i \in 1..Len(s) : s[i] = x /\ \A j \in 1..(i - 1) : s[j] # x

(***************************************************************************)
(* Tokens of the raw text.                                                 *)
(***************************************************************************)
LB == [t |-> "lb"]
RB == [t |-> "rb"]
COMMA == [t |-> "comma"]
Ws(nl, n) == [t |-> "ws", nl |-> nl, n |-> n]
Key(id) == [t |-> "key", id |-> id]
Fld(k, v) == [t |-> "fld", k |-> k, v |-> v]

IsWs(tok) == tok.t = "ws"
Indent == 4

(***************************************************************************)
(* A record (dict) is the sequence of its items in insertion order; the    *)
(* parsed registry is the sequence of [id, rec] in insertion order.        *)
(***************************************************************************)
Item(k, v) == [k |-> k, v |-> v]

HasKey(rec, k) == \E i \in 1..Len(rec) : rec[i].k = k

\* dict.get(k, None)
Get(rec, k) ==
  IF HasKey(rec, k) THEN (rec[CHOOSE i \in 1..Len(rec) : rec[i].k = k]).v ELSE "null"

\* d[k] = v: in place when k is a key of d, else at the end.
SetItem(rec, k, v) ==
  IF HasKey(rec, k)
  THEN [i \in 1..Len(rec) |-> IF rec[i].k = k THEN Item(k, v) ELSE rec[i]]
  ELSE Append(rec, Item(k, v))

\* d.update(e)
RECURSIVE DictUpdate(_, _)
DictUpdate(rec, e) ==
  IF e = <<>> THEN rec ELSE DictUpdate(SetItem(rec, Head(e).k, Head(e).v), Tail(e))

InData(data, id) == \E i \in 1..Len(data) : data[i].id = id
Lookup(data, id) == (data[CHOOSE i \in 1..Len(data) : data[i].id = id]).rec
KeysOf(data) == [i \in 1..Len(data) |-> data[i].id]
KeySet(data) == {data[i].id : i \in 1..Len(data)}

(***************************************************************************)
(* json.dumps(rec, indent=4) re-indented by the loop of lines 174-182:     *)
(* the first line "{", the inner lines at 8 blanks, the last line "}" at   *)
(* 4 blanks.  An empty dict dumps as the one line "{}", which the loop     *)
(* ends with a line break.                                                 *)
(***************************************************************************)
RECURSIVE DumpItems(_)
DumpItems(rec) ==
  IF rec = <<>> THEN <<>>
  ELSE <<Ws(TRUE, 2 * Indent), Fld(Head(rec).k, Head(rec).v)>>
       \o (IF Len(rec) > 1 THEN <<COMMA>> ELSE <<>>)
       \o DumpItems(Tail(rec))

NewModelJson(rec) ==
  IF rec = <<>> THEN <<LB, RB, Ws(TRUE, 0)>>
  ELSE <<LB>> \o DumpItems(rec) \o <<Ws(TRUE, Indent), RB>>

(***************************************************************************)
(* The regular expressions of the merger, on tokens.                       *)
(***************************************************************************)
\* The pattern text is str(id), not escaped (lines 187, 262): a "." of the
\* identifier matches any one character, every other character itself.
RegexIdMatch(pat, id) ==
  /\ Len(pat) = Len(id)
  /\ \A i \in 1..Len(pat) : pat[i] = "." \/ pat[i] = id[i]

\* \s* from position i: the first position that holds no white space.
RECURSIVE SkipWs(_, _)
SkipWs(text, i) ==
  IF i <= Len(text) /\ IsWs(text[i]) THEN SkipWs(text, i + 1) ELSE i

\* \n\s* ending right before position m: the white space before m holds a
\* line break.
RECURSIVE RunHasNl(_, _)
RunHasNl(text, m) ==
  IF m <= 1 \/ ~IsWs(text[m - 1]) THEN FALSE
  ELSE IF text[m - 1].nl THEN TRUE
  ELSE RunHasNl(text, m - 1)

\* "<pat>":\s*\{ at position i; the position of the brace, or 0.
BlockOpen(text, i, pat) ==
  IF text[i].t = "key" /\ RegexIdMatch(pat, text[i].id)
  THEN LET j == SkipWs(text, i + 1)
       IN IF j <= Len(text) /\ text[j] = LB THEN j ELSE 0
  ELSE 0

\* .*?\n\s*\}, after the brace at position b (re.DOTALL): the position of
\* the comma of the first "}," that follows a line break, or 0.
RECURSIVE BlockEnd(_, _)
BlockEnd(text, m) ==
  IF m + 1 > Len(text) THEN 0
  ELSE IF text[m] = RB /\ text[m + 1] = COMMA /\ RunHasNl(text, m) THEN m + 1
  ELSE BlockEnd(text, m + 1)

\* re.sub(r'"<pat>":\s*\{.*?\n\s*\},', repl, text, flags=re.DOTALL): every
\* match, left to right, none overlapping.
RECURSIVE ReSubBlockFrom(_, _, _, _)
ReSubBlockFrom(pat, repl, text, i) ==
  IF i > Len(text) THEN <<>>
  ELSE LET b == BlockOpen(text, i, pat)
           e == IF b = 0 THEN 0 ELSE BlockEnd(text, b + 1)
       IN IF e = 0 THEN <<text[i]>> \o ReSubBlockFrom(pat, repl, text, i + 1)
          ELSE repl \o ReSubBlockFrom(pat, repl, text, e + 1)

ReSubBlock(pat, repl, text) == ReSubBlockFrom(pat, repl, text, 1)

\* re.sub(r'"' + re.escape(next) + r'":\s*\{', repl, text): the identifier
\* is escaped here (line 208) and matches itself only.
RECURSIVE ReSubOpenFrom(_, _, _, _)
ReSubOpenFrom(next, repl, text, i) ==
  IF i > Len(text) THEN <<>>
  ELSE LET j == IF text[i].t = "key" /\ text[i].id = next THEN SkipWs(text, i + 1) ELSE 0
       IN IF j # 0 /\ j <= Len(text) /\ text[j] = LB
          THEN repl \o ReSubOpenFrom(next, repl, text, j + 1)
          ELSE <<text[i]>> \o ReSubOpenFrom(next, repl, text, i + 1)

ReSubOpen(next, repl, text) == ReSubOpenFrom(next, repl, text, 1)

(***************************************************************************)
(* _insert_dict_in_raw_json (lines 156-218).                               *)
(***************************************************************************)
\* f'"{id}": {new_model_json},'
BlockText(id, rec) == <<Key(id), Ws(FALSE, 1)>> \o NewModelJson(rec) \o <<COMMA>>

\* One iteration of the loop of line 172.
InsertOne(id, rec, local_data, raw) ==
  IF InData(local_data, id)
  THEN ReSubBlock(id, BlockText(id, rec), raw)
  ELSE LET model_keys == SortKeys(Append(KeysOf(local_data), id))
           new_model_index == IndexOf(model_keys, id)
       IN IF new_model_index = Len(model_keys)
          THEN raw \o BlockText(id, rec) \o <<Ws(TRUE, 0)>>
          ELSE LET next_model == model_keys[new_model_index + 1]
               IN ReSubOpen(next_model,
                            BlockText(id, rec)
                              \o <<Ws(TRUE, Indent), Key(next_model), Ws(FALSE, 1), LB>>,
                            raw)

\* remote_data is the sequence of [id, rec] in the dict's iteration order.
RECURSIVE InsertDictInRawJson(_, _, _)
InsertDictInRawJson(remote_data, local_data, raw) ==
  IF remote_data = <<>> THEN raw
  ELSE InsertDictInRawJson(Tail(remote_data), local_data,
         InsertOne(Head(remote_data).id, Head(remote_data).rec, local_data, raw))

(***************************************************************************)
(* _update_deprecated_models_in_raw_json (lines 221-272).                  *)
(***************************************************************************)
DeprecateOne(name, date_dict, local_data, raw) ==
  IF ~InData(local_data, name) THEN raw
  ELSE IF Get(Lookup(local_data, name), "deprecation_date") # "null" THEN raw
  ELSE ReSubBlock(name, BlockText(name, DictUpdate(Lookup(local_data, name), date_dict)), raw)

RECURSIVE UpdateDeprecatedModelsInRawJson(_, _, _)
UpdateDeprecatedModelsInRawJson(deprecation_data, local_data, raw) ==
  IF deprecation_data = <<>> THEN raw
  ELSE UpdateDeprecatedModelsInRawJson(Tail(deprecation_data), local_data,
         DeprecateOne(Head(deprecation_data).id, Head(deprecation_data).rec, local_data, raw))

(***************************************************************************)
(* json.loads of the raw text: white space is skipped, the text must be    *)
(* one object of "key": {members} entries separated by commas, and nothing *)
(* but white space may follow it.  A key met twice keeps its first place   *)
(* and takes its last value.                                               *)
(***************************************************************************)
NonWs(text) == SelectSeq(text, LAMBDA tok : ~IsWs(tok))

PutEntry(data, id, rec) ==
  IF InData(data, id)
  THEN [i \in 1..Len(data) |-> IF data[i].id = id THEN [id |-> id, rec |-> rec] ELSE data[i]]
  ELSE Append(data, [id |-> id, rec |-> rec])

NoParse == [ok |-> FALSE, data |-> <<>>]

\* The members of one entry from position i (after its "{"):
\* [ok, next, rec], next the position after its "}".
RECURSIVE ParseMembers(_, _, _)
ParseMembers(s, i, rec) ==
  IF i > Len(s) THEN [ok |-> FALSE, next |-> i, rec |-> rec]
  ELSE IF s[i] = RB /\ rec = <<>> THEN [ok |-> TRUE, next |-> i + 1, rec |-> rec]
  ELSE IF s[i].t # "fld" \/ i + 1 > Len(s) THEN [ok |-> FALSE, next |-> i, rec |-> rec]
  ELSE LET r == SetItem(rec, s[i].k, s[i].v)
       IN IF s[i + 1] = RB THEN [ok |-> TRUE, next |-> i + 2, rec |-> r]
          ELSE IF s[i + 1] = COMMA /\ i + 2 <= Len(s) /\ s[i + 2].t = "fld"
          THEN ParseMembers(s, i + 2, r)
          ELSE [ok |-> FALSE, next |-> i, rec |-> r]

\* The entries of the top-level object from position i (a key is expected).
RECURSIVE ParseEntries(_, _, _)
ParseEntries(s, i, data) ==
  IF i + 1 > Len(s) \/ s[i].t # "key" \/ s[i + 1] # LB THEN NoParse
  ELSE LET m == ParseMembers(s, i + 2, <<>>)
       IN IF ~m.ok \/ m.next > Len(s) THEN NoParse
          ELSE IF s[m.next] = RB
          THEN IF m.next = Len(s)
               THEN [ok |-> TRUE, data |-> PutEntry(data, s[i].id, m.rec)]
               ELSE NoParse
          ELSE IF s[m.next] = COMMA
          THEN ParseEntries(s, m.next + 1, PutEntry(data, s[i].id, m.rec))
          ELSE NoParse

JsonLoads(text) ==
  LET s == NonWs(text)
  IN IF Len(s) < 2 \/ s[1] # LB THEN NoParse
     ELSE IF s[2] = RB THEN (IF Len(s) = 2 THEN [ok |-> TRUE, data |-> <<>>] ELSE NoParse)
     ELSE ParseEntries(s, 2, <<>>)

(***************************************************************************)
(* _extract_table_data (lines 81-153).  A text is the sequence of its      *)
(* characters; in a header and in a label a word stands for its            *)
(* characters and the blank before it.  The tables modelled are those of   *)
(* scrape_groq_capabilities and scrape_groq_context_window, whose fields   *)
(* are "supports" and "tokens" fields: the "cost" and "date" conversions   *)
(* (lines 133-139, 148-149) have no field to act on.                       *)
(***************************************************************************)
\* str.lower()
Lower(c) ==
  CASE c = "Y" -> "y"
    [] c = "N" -> "n"
    [] c = "K" -> "k"
    [] c = "Model" -> "model"
    [] c = "ID" -> "id"
    [] c = "Parallel" -> "parallel"
    [] c = "Tool" -> "tool"
    [] c = "Use" -> "use"
    [] c = "Support?" -> "support?"
    [] c = "JSON" -> "json"
    [] c = "Mode" -> "mode"
    [] c = "Context" -> "context"
    [] c = "Window" -> "window"
    [] c = "Max" -> "max"
    [] c = "Completion" -> "completion"
    [] c = "Tokens" -> "tokens"
    [] OTHER -> c

LowerText(s) == [i \in 1..Len(s) |-> Lower(s[i])]

\* str.strip()
RECURSIVE StripLeft(_)
StripLeft(s) == IF s # <<>> /\ Head(s) = " " THEN StripLeft(Tail(s)) ELSE s

RECURSIVE StripRight(_)
StripRight(s) ==
  IF s # <<>> /\ s[Len(s)] = " " THEN StripRight(SubSeq(s, 1, Len(s) - 1)) ELSE s

\* .text.lower().strip()
CellText(s) == StripRight(StripLeft(LowerText(s)))

\* sub in s
Contains(s, sub) ==
  \E i \in 0..(Len(s) - Len(sub)) : SubSeq(s, i + 1, i + Len(sub)) = sub

\* str.replace(old, new), old one character
RECURSIVE Replace(_, _, _)
Replace(s, old, new) ==
  IF s = <<>> THEN <<>>
  ELSE (IF Head(s) = old THEN new ELSE <<Head(s)>>) \o Replace(Tail(s), old, new)

\* str.isdigit(): not empty, and digits only (the texts modelled are ASCII).
AsciiDigits == {"0", "1", "2", "3", "4", "5", "6", "7", "8", "9"}
IsDigit(s) == s # <<>> /\ \A i \in 1..Len(s) : s[i] \in AsciiDigits

DigitValue(c) ==
  CASE c = "0" -> 0 [] c = "1" -> 1 [] c = "2" -> 2 [] c = "3" -> 3 [] c = "4" -> 4
    [] c = "5" -> 5 [] c = "6" -> 6 [] c = "7" -> 7 [] c = "8" -> 8 [] c = "9" -> 9

\* int(s)
RECURSIVE IntOf(_)
IntOf(s) == IF s = <<>> THEN 0 ELSE 10 * IntOf(SubSeq(s, 1, Len(s) - 1)) + DigitValue(s[Len(s)])

\* The branch of lines 133-151 a field name takes: the first of "cost",
\* "supports", "tokens", "date" that the name contains.
FieldKind(col_name) ==
  CASE col_name \in {"supports_tool_choice", "supports_function_calling",
                     "supports_response_schema"} -> "supports"
    [] col_name \in {"max_input_tokens", "max_output_tokens", "max_tokens"} -> "tokens"
    [] OTHER -> "text"

\* Lines 101-104 for the header at index i (from 0): every desired field
\* whose label the header contains takes i.
RECURSIVE ResolveHeader(_, _, _, _)
ResolveHeader(col_map, col, i, desired) ==
  IF desired = <<>> THEN col_map
  ELSE ResolveHeader(IF Contains(col, Head(desired)[1])
                     THEN SetItem(col_map, Head(desired)[2], i)
                     ELSE col_map,
                     col, i, Tail(desired))

\* Lines 97-104: the headers in order, from the copy of col_map_input.
RECURSIVE ResolveFrom(_, _, _, _)
ResolveFrom(col_map, col_names, i, desired) ==
  IF i >= Len(col_names) THEN col_map
  ELSE ResolveFrom(ResolveHeader(col_map, col_names[i + 1], i, desired),
                   col_names, i + 1, desired)

ResolveColumns(col_names, desired, col_map_input) ==
  ResolveFrom(col_map_input, col_names, 0, desired)

\* Lines 140-143: [ok, v]; not ok is the ValueError.
SupportsValue(text_) ==
  IF ~Contains(text_, <<"y", "e", "s">>) /\ ~Contains(text_, <<"n", "o">>)
  THEN [ok |-> FALSE, v |-> FALSE]
  ELSE [ok |-> TRUE, v |-> (text_ = <<"y", "e", "s">>)]

\* Lines 144-147: [set, v]; not set is a text that is no number.
TokensValue(text_) ==
  LET tokens == Replace(Replace(text_, ",", <<>>), "k", <<"0", "0", "0">>)
  IN IF IsDigit(tokens) THEN [set |-> TRUE, v |-> IntOf(tokens)]
     ELSE [set |-> FALSE, v |-> 0]

\* Lines 126-151 for one row: the fields of col_map in its order, up to the
\* first that raises.  A cell is [text, link], the link the text that follows
\* "?model=" in the href of its anchor, or <<>> when it has no anchor.
RECURSIVE FillRow(_, _, _)
FillRow(items, row, rec) ==
  IF items = <<>> THEN [ok |-> TRUE, rec |-> rec]
  ELSE IF Head(items).k \in {"try_now_button", "name"} THEN FillRow(Tail(items), row, rec)
  ELSE IF Head(items).v + 1 > Len(row) THEN [ok |-> FALSE, rec |-> rec]
  ELSE LET col_name == Head(items).k
           text_ == CellText(row[Head(items).v + 1].text)
       IN CASE FieldKind(col_name) = "supports" ->
                 IF SupportsValue(text_).ok
                 THEN FillRow(Tail(items), row, SetItem(rec, col_name, SupportsValue(text_).v))
                 ELSE [ok |-> FALSE, rec |-> rec]
            [] FieldKind(col_name) = "tokens" ->
                 IF TokensValue(text_).set
                 THEN FillRow(Tail(items), row, SetItem(rec, col_name, TokensValue(text_).v))
                 ELSE FillRow(Tail(items), row, rec)
            [] OTHER -> FillRow(Tail(items), row, SetItem(rec, col_name, text_))

\* Lines 116-122: [ok, name]; not ok is a cell that is missing or has no
\* anchor.
ModelName(col_map, row) ==
  IF HasKey(col_map, "try_now_button")
  THEN IF Get(col_map, "try_now_button") + 1 > Len(row)
          \/ row[Get(col_map, "try_now_button") + 1].link = <<>>
       THEN [ok |-> FALSE, name |-> <<>>]
       ELSE [ok |-> TRUE, name |-> row[Get(col_map, "try_now_button") + 1].link]
  ELSE IF Get(col_map, "name") + 1 > Len(row) THEN [ok |-> FALSE, name |-> <<>>]
  ELSE [ok |-> TRUE, name |-> CellText(row[Get(col_map, "name") + 1].text)]

\* Lines 113-151 for one row: [ok, name, rec].
ExtractRow(col_map, row) ==
  LET n == ModelName(col_map, row)
  IN IF ~n.ok THEN [ok |-> FALSE, name |-> <<>>, rec |-> <<>>]
     ELSE [ok |-> FillRow(col_map, row, <<>>).ok, name |-> n.name,
           rec |-> FillRow(col_map, row, <<>>).rec]

(***************************************************************************)
(* scrape_groq_main (lines 491-560).  The four scraped dicts map a model   *)
(* name to its record; a value is kept as a string, the code never         *)
(* reading one.                                                            *)
(***************************************************************************)
GroqPrefix == <<"g", "r", "o", "q", "/">>

\* d.get(name, {})
GetRec(data, name) == IF InData(data, name) THEN Lookup(data, name) ELSE <<>>

\* del d[id]
Remove(data, id) == SelectSeq(data, LAMBDA e : e.id # id)

\* Lines 536-558: the fields of the schema in its order, those without a
\* value left out.
SchemaOrder ==
  <<"max_tokens", "max_input_tokens", "max_output_tokens", "input_cost_per_token",
    "output_cost_per_token", "input_cost_per_second", "output_cost_per_second",
    "input_cost_per_character", "litellm_provider", "mode", "supports_function_calling",
    "supports_response_schema", "supports_reasoning", "supports_tool_choice">>

RECURSIVE ProjectFrom(_, _)
ProjectFrom(rec, fields) ==
  IF fields = <<>> THEN <<>>
  ELSE (IF HasKey(rec, Head(fields)) /\ Get(rec, Head(fields)) # "null"
        THEN <<Item(Head(fields), Get(rec, Head(fields)))>>
        ELSE <<>>)
       \o ProjectFrom(rec, Tail(fields))

\* Lines 511-558 for one model name: [keep, model, rec]; not keep is
\* total.pop(model).
AggregateOneKeepsTts(model_name, pricing_, capabilities_, context_window_, reasoning_) ==
  LET model == GroqPrefix \o model_name
      u == DictUpdate(DictUpdate(DictUpdate(GetRec(pricing_, model_name),
                                            GetRec(capabilities_, model_name)),
                                 GetRec(context_window_, model_name)),
                      GetRec(reasoning_, model_name))
      classified ==
        IF HasKey(u, "input_cost_per_token")
        THEN [keep |-> TRUE, rec |-> SetItem(u, "mode", "chat")]
        ELSE IF HasKey(u, "input_cost_per_second")
        THEN [keep |-> TRUE,
              rec |-> SetItem(SetItem(u, "output_cost_per_second", "0.0"),
                              "mode", "audio_transcription")]
        ELSE IF Contains(model, <<"t", "t", "s">>)
        THEN [keep |-> TRUE, rec |-> SetItem(u, "mode", "audio_speech")]
        ELSE [keep |-> FALSE, rec |-> u]
  IN [keep |-> classified.keep,
      model |-> model,
      rec |-> ProjectFrom(SetItem(classified.rec, "litellm_provider", "groq"), SchemaOrder)]

AggregateOne(model_name, pricing_, capabilities_, context_window_, reasoning_) ==
  LET model == GroqPrefix \o model_name
      u == DictUpdate(DictUpdate(DictUpdate(GetRec(pricing_, model_name),
                                            GetRec(capabilities_, model_name)),
                                 GetRec(context_window_, model_name)),
                      GetRec(reasoning_, model_name))
      classified ==
        IF HasKey(u, "input_cost_per_token")
        THEN [keep |-> TRUE, rec |-> SetItem(u, "mode", "chat")]
        ELSE IF HasKey(u, "input_cost_per_second")
        THEN [keep |-> TRUE,
              rec |-> SetItem(SetItem(u, "output_cost_per_second", "0.0"),
                              "mode", "audio_transcription")]
        ELSE IF Contains(model, <<"t", "t", "s">>)
        THEN [keep |-> HasKey(u, "input_cost_per_character"),
              rec |-> SetItem(u, "mode", "audio_speech")]
        ELSE [keep |-> FALSE, rec |-> u]
  IN [keep |-> classified.keep,
      model |-> model,
      rec |-> ProjectFrom(SetItem(classified.rec, "litellm_provider", "groq"), SchemaOrder)]

(***************************************************************************)
(* The inputs: the registry file before the run and what the vendor's      *)
(* pages hold.                                                             *)
(***************************************************************************)
MaxLocal == 2
MaxRemote == 2
MaxDeprecated == 1
MaxRuns == 2

\* The sequences of distinct identifiers of length at most n.
DistinctSeqs(n) ==
  {q \in UNION {[1..k -> Ids] : k \in 0..n} :
     \A i, j \in 1..Len(q) : i # j => q[i] # q[j]}

IsSorted(s) == \A i \in 1..(Len(s) - 1) : StrLess(s[i], s[i + 1])

\* A local record: a value, and a deprecation date or none.
LocalRecs == {<<Item("max_tokens", "1")>>,
              <<Item("max_tokens", "1"), Item("deprecation_date", "d1")>>}
RemoteRec == <<Item("max_tokens", "2")>>
DateDict == <<Item("deprecation_date", "d2")>>

\* The blanks between an entry's colon and its brace: one as json.dumps
\* writes it, or two.
Seps == {1, 2}

\* The registry files: the identifiers in sorted order, every entry on
\* lines of its own at four blanks, no comma after the last one.
Entries == [id : Ids, rec : LocalRecs, sep : Seps]

RegistriesOf(ks) ==
  {es \in [1..Len(ks) -> Entries] : \A i \in 1..Len(ks) : es[i].id = ks[i]}

Registries ==
  UNION {RegistriesOf(ks) : ks \in {q \in DistinctSeqs(MaxLocal) : IsSorted(q)}}

RECURSIVE EntriesText(_)
EntriesText(es) ==
  IF es = <<>> THEN <<>>
  ELSE <<Ws(TRUE, Indent), Key(Head(es).id), Ws(FALSE, Head(es).sep)>>
       \o NewModelJson(Head(es).rec)
       \o (IF Len(es) > 1 THEN <<COMMA>> ELSE <<>>)
       \o EntriesText(Tail(es))

RegistryText(es) ==
  IF es = <<>> THEN <<LB, RB, Ws(TRUE, 0)>>
  ELSE <<LB>> \o EntriesText(es) \o <<Ws(TRUE, 0), RB, Ws(TRUE, 0)>>

RemoteChoices == {[i \in 1..Len(q) |-> [id |-> q[i], rec |-> RemoteRec]] : q \in DistinctSeqs(MaxRemote)}
DeprecatedChoices == {[i \in 1..Len(q) |-> [id |-> q[i], rec |-> DateDict]] : q \in DistinctSeqs(MaxDeprecated)}

(***************************************************************************)
(* The inputs of _extract_table_data: a table of the capabilities page or  *)
(* of the models page, the desired columns its scraper asks for, and a     *)
(* col_map_input.  Every cell of a row holds the same text and the same    *)
(* anchor.                                                                 *)
(***************************************************************************)
MaxCols == 3
MaxRows == 1

\* Lines 368-373 and 399-404.
DesiredCapabilities ==
  << <<(<<"model", "id">>), "name">>,
     <<(<<"tool", "use", "support?">>), "supports_tool_choice">>,
     <<(<<"tool", "use", "support?">>), "supports_function_calling">>,
     <<(<<"json", "mode", "support?">>), "supports_response_schema">> >>

DesiredContextWindow ==
  << <<(<<"model", "id">>), "name">>,
     <<(<<"context", "window">>), "max_input_tokens">>,
     <<(<<"completion", "tokens">>), "max_output_tokens">>,
     <<(<<"completion", "tokens">>), "max_tokens">> >>

CapabilityHeaders ==
  {<<"Model", "ID">>, <<"Tool", "Use", "Support?">>,
   <<"Parallel", "Tool", "Use", "Support?">>, <<"JSON", "Mode", "Support?">>}

ContextWindowHeaders ==
  {<<"Model", "ID">>, <<"Context", "Window">>, <<"Max", "Completion", "Tokens">>,
   <<"Developer">>}

\* The header rows of at most MaxCols distinct headers.
HeaderRows(pool) ==
  {q \in UNION {[1..k -> pool] : k \in 1..MaxCols} :
     \A i, j \in 1..Len(q) : i # j => q[i] # q[j]}

CellTexts ==
  {<<"Y", "e", "s">>, <<"N", "o">>, <<" ", "y", "e", "s", " ">>,
   <<"m", "a", "y", "b", "e">>, <<"u", "n", "k", "n", "o", "w", "n">>,
   <<"n", "o", "t", " ", "s", "u", "p", "p", "o", "r", "t", "e", "d">>,
   <<"y", "e", "s", "*">>,
   <<"1", "2", "8", "k">>, <<"4", ",", "0", "9", "6">>, <<"n", "/", "a">>, <<"-">>,
   <<"1", "k", "5">>, <<"8", "1", "9", "2">>}

CellLinks == {<<>>, <<"l", "m">>}

RowChoices ==
  UNION {[1..k -> [text : CellTexts, link : CellLinks]] : k \in 1..MaxRows}

\* The col_map_input of the callers: none (lines 375, 406, 446), a fixed
\* identifier column (line 482), a fixed column of "try now" links (lines
\* 306-333), its index taken among the columns modelled.
ColMapInputs == {<<>>, <<Item("name", 0)>>, <<Item("try_now_button", 0)>>}

\* The cells of a row of n columns.
RowCells(row, n) == [i \in 1..n |-> row]

(***************************************************************************)
(* The inputs of scrape_groq_main: what the four scrapers return for the   *)
(* model names "lm" and "tts".                                             *)
(***************************************************************************)
ModelNames == {<<"l", "m">>, <<"t", "t", "s">>}

PricingRecs ==
  {<<Item("input_cost_per_token", "p"), Item("output_cost_per_token", "p")>>,
   <<Item("input_cost_per_second", "p")>>,
   <<Item("input_cost_per_character", "p")>>}
CapabilityRec ==
  <<Item("supports_tool_choice", "true"), Item("supports_function_calling", "true"),
    Item("supports_response_schema", "true")>>
ContextWindowRec ==
  <<Item("max_input_tokens", "n"), Item("max_output_tokens", "n"), Item("max_tokens", "n")>>
ReasoningRec == <<Item("supports_reasoning", "true")>>

\* The dicts that give some of the names a record of recs, each listed with
\* its names in one order (scrape_groq_main does not read the order).
StrLessNames(x, y) == Len(x) < Len(y)

Dicts(recs) ==
  {d \in UNION {[1..k -> [id : ModelNames, rec : recs]] : k \in 0..Cardinality(ModelNames)} :
     \A i, j \in 1..Len(d) : i < j => StrLessNames(d[i].id, d[j].id)}

(***************************************************************************)
(* The state: of main(), of _extract_table_data and of scrape_groq_main.    *)
(***************************************************************************)
VARIABLES
  file,                   \* the registry file on disk
  site_main,              \* what scrape_groq_main() finds on the vendor's pages
  site_deprecated,        \* what scrape_groq_deprecated_models() finds
  pc,                     \* the statement of main() to run next
  local_data_raw,
  local_data,
  remote_data,
  deprecated_model_data,
  printed,                \* the message of line 584 was printed
  file0,                  \* history: the file when this execution began
  raw_loaded,             \* history: local_data_raw as line 569 loaded it
  raw_inserted,           \* history: local_data_raw as line 576 left it
  steps,                  \* history: the statements completed in this execution
  writes,                 \* history: the writes of this execution
  outputs,                \* history: the texts written, one per execution that wrote
  \* _extract_table_data
  th,                     \* the texts of the table's header cells
  rows,                   \* the table's data rows
  desired_col_names,
  col_map_input,
  xpc,                    \* the statement of _extract_table_data to run next
  col_map,
  model_map,
  row_i,                  \* the row the loop of line 112 is at
  row_results,            \* history: what each row gave, [name, rec]
  \* scrape_groq_main
  pricing,
  capabilities,
  context_window,
  reasoning_models,
  apc,                    \* the statement of scrape_groq_main to run next
  to_visit,               \* the names of all_models the loop of line 510 has not visited
  total

main_vars == <<file, site_main, site_deprecated, pc, local_data_raw, local_data, remote_data,
               deprecated_model_data, printed, file0, raw_loaded, raw_inserted, steps,
               writes, outputs>>
extract_vars == <<th, rows, desired_col_names, col_map_input, xpc, col_map, model_map, row_i,
                  row_results>>
aggregate_vars == <<pricing, capabilities, context_window, reasoning_models, apc, to_visit,
                    total>>
vars == <<main_vars, extract_vars, aggregate_vars>>

\* The function that is not running.
MainIdle ==
  /\ file = <<>> /\ site_main = <<>> /\ site_deprecated = <<>> /\ pc = "idle"
  /\ local_data_raw = <<>> /\ local_data = <<>> /\ remote_data = <<>>
  /\ deprecated_model_data = <<>> /\ printed = FALSE /\ file0 = <<>>
  /\ raw_loaded = <<>> /\ raw_inserted = <<>> /\ steps = {} /\ writes = 0
  /\ outputs = <<>>

ExtractIdle ==
  /\ th = <<>> /\ rows = <<>> /\ desired_col_names = <<>> /\ col_map_input = <<>>
  /\ xpc = "idle" /\ col_map = <<>> /\ model_map = <<>> /\ row_i = 0 /\ row_results = <<>>

AggregateIdle ==
  /\ pricing = <<>> /\ capabilities = <<>> /\ context_window = <<>>
  /\ reasoning_models = <<>> /\ apc = "idle" /\ to_visit = {} /\ total = <<>>

(***************************************************************************)
(* main() (lines 563-584), one action per statement.                       *)
(***************************************************************************)

site == <<site_main, site_deprecated>>
history == <<file0, raw_loaded, raw_inserted>>

Init ==
  /\ ExtractIdle /\ AggregateIdle
  /\ file \in {RegistryText(es) : es \in Registries}
  /\ site_main \in RemoteChoices
  /\ site_deprecated \in DeprecatedChoices
  /\ pc = "load"
  /\ local_data_raw = <<>>
  /\ local_data = <<>>
  /\ remote_data = <<>>
  /\ deprecated_model_data = <<>>
  /\ printed = FALSE
  /\ file0 = file
  /\ raw_loaded = <<>>
  /\ raw_inserted = <<>>
  /\ steps = {}
  /\ writes = 0
  /\ outputs = <<>>

\* An exception leaves main(): nothing after the raising statement runs, and
\* the process ends with its variables.
Raised ==
  /\ pc' = "raised"
  /\ local_data_raw' = <<>>
  /\ local_data' = <<>>
  /\ remote_data' = <<>>
  /\ deprecated_model_data' = <<>>
  /\ raw_loaded' = <<>>
  /\ raw_inserted' = <<>>
  /\ UNCHANGED <<file, site, printed, file0, steps, writes, outputs>>

\* Lines 569-570: the text, and the text parsed.
LoadLocalData ==
  /\ pc = "load"
  /\ JsonLoads(file).ok
  /\ UNCHANGED <<extract_vars, aggregate_vars>>
  /\ local_data_raw' = file
  /\ local_data' = JsonLoads(file).data
  /\ raw_loaded' = file
  /\ steps' = steps \cup {"load"}
  /\ pc' = "scrape_main"
  /\ UNCHANGED <<file, site, remote_data, deprecated_model_data, printed, file0,
                 raw_inserted, writes, outputs>>

\* The file does not parse: load_local_data gives no data, or raises.
LoadLocalDataFails ==
  /\ pc = "load"
  /\ ~JsonLoads(file).ok
  /\ UNCHANGED <<extract_vars, aggregate_vars>>
  /\ \/ /\ local_data_raw' = file
        /\ local_data' = <<>>
        /\ raw_loaded' = file
        /\ steps' = steps \cup {"load"}
        /\ pc' = "scrape_main"
        /\ UNCHANGED <<file, site, remote_data, deprecated_model_data, printed, file0,
                       raw_inserted, writes, outputs>>
     \/ Raised

\* Line 572.
ScrapeGroqMain ==
  /\ pc = "scrape_main"
  /\ UNCHANGED <<extract_vars, aggregate_vars>>
  /\ \/ /\ remote_data' = site_main
        /\ steps' = steps \cup {"scrape_main"}
        /\ pc' = "scrape_deprecated"
        /\ UNCHANGED <<file, site, local_data_raw, local_data, deprecated_model_data, printed,
                       history, writes, outputs>>
     \/ Raised

\* Line 573.
ScrapeGroqDeprecatedModels ==
  /\ pc = "scrape_deprecated"
  /\ UNCHANGED <<extract_vars, aggregate_vars>>
  /\ \/ /\ deprecated_model_data' = site_deprecated
        /\ steps' = steps \cup {"scrape_deprecated"}
        /\ pc' = "merge"
        /\ UNCHANGED <<file, site, local_data_raw, local_data, remote_data, printed, history, writes, outputs>>
     \/ Raised

\* Lines 575-578: a dict is true when it holds a key.
InsertPass ==
  /\ pc = "merge"
  /\ local_data # <<>> /\ remote_data # <<>>
  /\ UNCHANGED <<extract_vars, aggregate_vars>>
  /\ \/ /\ local_data_raw' = InsertDictInRawJson(remote_data, local_data, local_data_raw)
        /\ raw_inserted' = local_data_raw'
        /\ steps' = steps \cup {"insert"}
        /\ pc' = "deprecate"
        /\ UNCHANGED <<file, site, local_data, remote_data, deprecated_model_data, printed,
                       file0, raw_loaded, writes, outputs>>
     \/ Raised

\* Lines 579-581.
DeprecatePass ==
  /\ pc = "deprecate"
  /\ UNCHANGED <<extract_vars, aggregate_vars>>
  /\ \/ /\ local_data_raw' =
             UpdateDeprecatedModelsInRawJson(deprecated_model_data, local_data, local_data_raw)
        /\ steps' = steps \cup {"deprecate"}
        /\ pc' = "write"
        /\ UNCHANGED <<file, site, local_data, remote_data, deprecated_model_data, printed,
                       history, writes, outputs>>
     \/ Raised

\* The write placed before the deprecation pass as well.
WriteToFileEarly ==
  /\ (pc = "deprecate" /\ writes = 0) \/ pc = "write"
  /\ UNCHANGED <<extract_vars, aggregate_vars>>
  /\ file' = local_data_raw
  /\ writes' = writes + 1
  /\ outputs' = Append(outputs, local_data_raw)
  /\ steps' = steps \cup {"write"}
  /\ pc' = IF pc = "write" THEN "done" ELSE pc
  /\ UNCHANGED <<site, local_data_raw, local_data, remote_data, deprecated_model_data,
                 printed, history>>

\* Line 582: write_to_file overwrites the whole file.
WriteToFile ==
  /\ pc = "write"
  /\ UNCHANGED <<extract_vars, aggregate_vars>>
  /\ file' = local_data_raw
  /\ writes' = writes + 1
  /\ outputs' = Append(outputs, local_data_raw)
  /\ steps' = steps \cup {"write"}
  /\ pc' = "done"
  /\ UNCHANGED <<site, local_data_raw, local_data, remote_data, deprecated_model_data,
                 printed, history>>

\* Lines 583-584.
PrintFailed ==
  /\ pc = "merge"
  /\ ~(local_data # <<>> /\ remote_data # <<>>)
  /\ UNCHANGED <<extract_vars, aggregate_vars>>
  /\ printed' = TRUE
  /\ pc' = "done"
  /\ UNCHANGED <<file, site, local_data_raw, local_data, remote_data, deprecated_model_data,
                 history, steps, writes, outputs>>

\* The workflow runs the script again, the pages unchanged.
NextRun ==
  /\ pc \in {"done", "raised"}
  /\ UNCHANGED <<extract_vars, aggregate_vars>>
  /\ Len(outputs) < MaxRuns
  /\ pc' = "load"
  /\ local_data_raw' = <<>>
  /\ local_data' = <<>>
  /\ remote_data' = <<>>
  /\ deprecated_model_data' = <<>>
  /\ printed' = FALSE
  /\ file0' = file
  /\ raw_loaded' = <<>>
  /\ raw_inserted' = <<>>
  /\ steps' = {}
  /\ writes' = 0
  /\ UNCHANGED <<file, site, outputs>>

Next ==
  \/ LoadLocalData
  \/ LoadLocalDataFails
  \/ ScrapeGroqMain
  \/ ScrapeGroqDeprecatedModels
  \/ InsertPass
  \/ DeprecatePass
  \/ WriteToFile
  \/ PrintFailed
  \/ NextRun

Spec == Init /\ [][Next]_vars

(***************************************************************************)
(* _extract_table_data (lines 81-153): the column resolution, one row at a *)
(* time, the return.                                                       *)
(***************************************************************************)
TableChoices ==
  {[desired |-> DesiredCapabilities, th |-> h] : h \in HeaderRows(CapabilityHeaders)}
    \cup {[desired |-> DesiredContextWindow, th |-> h] : h \in HeaderRows(ContextWindowHeaders)}

InitExtract ==
  /\ MainIdle /\ AggregateIdle
  /\ \E tc \in TableChoices : th = tc.th /\ desired_col_names = tc.desired
  /\ rows \in RowChoices
  /\ col_map_input \in ColMapInputs
  /\ xpc = "resolve"
  /\ col_map = <<>>
  /\ model_map = <<>>
  /\ row_i = 0
  /\ row_results = <<>>

\* Line 78.
ColNames == [i \in 1..Len(th) |-> CellText(th[i])]

\* Lines 97-107.
ResolveStep ==
  /\ xpc = "resolve"
  /\ col_map' = ResolveColumns(ColNames, desired_col_names, col_map_input)
  /\ xpc' = IF ~HasKey(col_map', "name") /\ ~HasKey(col_map', "try_now_button")
            THEN "raised" ELSE "rows"
  /\ row_i' = IF xpc' = "raised" THEN 0 ELSE 1
  /\ UNCHANGED <<th, rows, desired_col_names, col_map_input, model_map, row_results>>
  /\ UNCHANGED <<main_vars, aggregate_vars>>

\* Lines 112-151 for the row at row_i.
RowStep ==
  /\ xpc = "rows"
  /\ row_i <= Len(rows)
  /\ LET r == ExtractRow(col_map, RowCells(rows[row_i], Len(th)))
     IN IF r.ok
        THEN /\ model_map' = PutEntry(model_map, r.name, r.rec)
             /\ row_results' = Append(row_results, [name |-> r.name, rec |-> r.rec])
             /\ row_i' = row_i + 1
             /\ xpc' = "rows"
        ELSE /\ xpc' = "raised"
             /\ UNCHANGED <<model_map, row_results, row_i>>
  /\ UNCHANGED <<th, rows, desired_col_names, col_map_input, col_map>>
  /\ UNCHANGED <<main_vars, aggregate_vars>>

\* Line 153.
ReturnModelMap ==
  /\ xpc = "rows"
  /\ row_i > Len(rows)
  /\ xpc' = "returned"
  /\ UNCHANGED <<th, rows, desired_col_names, col_map_input, col_map, model_map, row_i,
                 row_results>>
  /\ UNCHANGED <<main_vars, aggregate_vars>>

NextExtract ==
  \/ ResolveStep
  \/ RowStep
  \/ ReturnModelMap

SpecExtract == InitExtract /\ [][NextExtract]_vars

(***************************************************************************)
(* scrape_groq_main (lines 491-560): the loop of line 510 visits the names *)
(* of the set all_models in any order.                                     *)
(***************************************************************************)
InitAggregate ==
  /\ MainIdle /\ ExtractIdle
  /\ pricing \in Dicts(PricingRecs)
  /\ capabilities \in Dicts({CapabilityRec})
  /\ context_window \in Dicts({ContextWindowRec})
  /\ reasoning_models \in Dicts({ReasoningRec})
  /\ apc = "loop"
  /\ to_visit = KeySet(pricing) \cup KeySet(capabilities) \cup KeySet(context_window)
                  \cup KeySet(reasoning_models)
  /\ total = <<>>

\* Lines 511-558 for one name.
AggregateModel ==
  /\ apc = "loop"
  /\ \E model_name \in to_visit :
       LET a == AggregateOne(model_name, pricing, capabilities, context_window,
                             reasoning_models)
       IN /\ total' = IF a.keep THEN PutEntry(total, a.model, a.rec)
                      ELSE Remove(total, a.model)
          /\ to_visit' = to_visit \ {model_name}
  /\ UNCHANGED <<pricing, capabilities, context_window, reasoning_models, apc>>
  /\ UNCHANGED <<main_vars, extract_vars>>

\* Line 560.
ReturnTotal ==
  /\ apc = "loop"
  /\ to_visit = {}
  /\ apc' = "returned"
  /\ UNCHANGED <<pricing, capabilities, context_window, reasoning_models, to_visit, total>>
  /\ UNCHANGED <<main_vars, extract_vars>>

NextAggregate ==
  \/ AggregateModel
  \/ ReturnTotal

SpecAggregate == InitAggregate /\ [][NextAggregate]_vars

(***************************************************************************)
(* What the claims about the merger speak of.                              *)
(***************************************************************************)
\* The positions of the text that hold the key of id.
KeyPositions(text, id) == {i \in 1..Len(text) : text[i] = Key(id)}

\* The identifiers that have a key in the text.
TextIds(text) == {id \in Ids : KeyPositions(text, id) # {}}

\* The block that starts with the key at position i: the key, the white
\* space, and the braces with what they hold.
RECURSIVE BlockStop(_, _)
BlockStop(text, i) ==
  IF i >= Len(text) \/ text[i] = RB THEN i ELSE BlockStop(text, i + 1)

BlockAt(text, i) == SubSeq(text, i, BlockStop(text, i))

\* The blocks of id in the text: one in a well-formed text.
BlocksOf(text, id) == {BlockAt(text, i) : i \in KeyPositions(text, id)}

RemoteIds == KeySet(remote_data)
DeprecatedIds == KeySet(deprecated_model_data)
LocalIds == KeySet(local_data)

HasDate(rec) == Get(rec, "deprecation_date") # "null"

\* The members a block holds, as a record.
RECURSIVE BlockRec(_)
BlockRec(block) ==
  IF block = <<>> THEN <<>>
  ELSE IF Head(block).t = "fld"
  THEN <<Item(Head(block).k, Head(block).v)>> \o BlockRec(Tail(block))
  ELSE BlockRec(Tail(block))

\* C1: merge idempotence: a second run of the merge of main() on the output
\* of the first run, re-parsed, with the same remote and deprecation data,
\* writes a text identical to the output of the first run.
C1_MergeIdempotent == Len(outputs) >= 2 => outputs[2] = outputs[1]

\* C2: untouched entries are preserved: after both passes, the block of every
\* identifier of the registry that is neither a key of the remote data nor a
\* key of the deprecation data is the text it was before the merge.
C2_UntouchedPreserved ==
  pc = "write" =>
    \A id \in LocalIds \ (RemoteIds \cup DeprecatedIds) :
      BlocksOf(local_data_raw, id) = BlocksOf(raw_loaded, id)

\* C3: insertion ordering: in a registry whose identifiers are sorted in the
\* text, after the insert pass every inserted identifier has its block, after
\* the blocks of all smaller identifiers and before those of all larger ones.
C3_InsertedInOrder ==
  (pc = "deprecate" /\ IsSorted(KeysOf(local_data))) =>
    \A id \in RemoteIds \ LocalIds :
      /\ KeyPositions(raw_inserted, id) # {}
      /\ \A i \in KeyPositions(raw_inserted, id) :
           \A j \in 1..Len(raw_inserted) :
             raw_inserted[j].t = "key" =>
               /\ StrLess(raw_inserted[j].id, id) => j < i
               /\ StrLess(id, raw_inserted[j].id) => i < j

\* C4: the deprecation pass never overwrites a deprecation_date and never
\* creates a top-level entry: the identifiers of the text are those before
\* the pass, the block of an identifier whose local record has a
\* deprecation_date is unchanged, and only identifiers that exist locally
\* and lack a deprecation_date have their block changed.
C4_DeprecationSafe ==
  pc = "write" =>
    /\ TextIds(local_data_raw) = TextIds(raw_inserted)
    /\ \A id \in Ids :
         BlocksOf(local_data_raw, id) # BlocksOf(raw_inserted, id) =>
           /\ id \in LocalIds
           /\ id \in DeprecatedIds
           /\ ~HasDate(Lookup(local_data, id))

\* C10: the text and the parsed form stay consistent across the two passes:
\* an identifier that exists locally, is in the remote data and receives a
\* deprecation_date in this run holds, in the final text, the remote record
\* plus deprecation_date, not the values it had before the run.
C10_DeprecationKeepsUpdate ==
  pc = "write" =>
    \A id \in (LocalIds \cap RemoteIds) \cap DeprecatedIds :
      \A b \in BlocksOf(local_data_raw, id) :
        (HasDate(BlockRec(b)) /\ ~HasDate(Lookup(local_data, id))) =>
          BlockRec(b) = DictUpdate(Lookup(remote_data, id), Lookup(deprecated_model_data, id))

\* C5: no partial commit: an execution of main() writes the file at most
\* once, and only after the load, both scrapes and both merge passes have
\* completed and the local and the remote data are not empty; an execution
\* that raised, or found the local or the remote data empty, wrote nothing
\* and left the file as it was, and in the empty case printed the message.
C5_NoPartialCommit ==
  /\ writes <= 1
  /\ writes = 1 =>
       /\ pc = "done"
       /\ {"load", "scrape_main", "scrape_deprecated", "insert", "deprecate"} \subseteq steps
       /\ local_data # <<>> /\ remote_data # <<>>
       /\ file = local_data_raw
  /\ writes = 0 => file = file0
  /\ pc = "raised" => writes = 0
  /\ (pc = "done" /\ (local_data = <<>> \/ remote_data = <<>>)) => (printed /\ writes = 0)
  /\ printed => writes = 0

\* C5's case: an execution that completed every step and wrote a changed file.
C5_Witness == pc = "done" /\ writes = 1 /\ file # file0

(***************************************************************************)
(* What the claims about the aggregator and the extractor speak of.        *)
(***************************************************************************)
AllModels ==
  KeySet(pricing) \cup KeySet(capabilities) \cup KeySet(context_window)
    \cup KeySet(reasoning_models)

\* The names the loop of line 510 has visited.
Visited == AllModels \ to_visit

\* The record of lines 512-517 for a name.
Unioned(model_name) ==
  DictUpdate(DictUpdate(DictUpdate(GetRec(pricing, model_name),
                                   GetRec(capabilities, model_name)),
                        GetRec(context_window, model_name)),
             GetRec(reasoning_models, model_name))

IsTts(model_name) == Contains(GroqPrefix \o model_name, <<"t", "t", "s">>)

KeptAs(model_name, mode) ==
  /\ InData(total, GroqPrefix \o model_name)
  /\ Get(Lookup(total, GroqPrefix \o model_name), "mode") = mode

Discarded(model_name) == ~InData(total, GroqPrefix \o model_name)

\* C6 as it was stated: a record with input_cost_per_token is kept with
\* mode chat; else one with input_cost_per_second with mode
\* audio_transcription; else one whose identifier contains "tts" is kept with
\* mode audio_speech; every other record is discarded.
C6_ModeByPresenceAsStated ==
  \A n \in Visited :
    IF HasKey(Unioned(n), "input_cost_per_token") THEN KeptAs(n, "chat")
    ELSE IF HasKey(Unioned(n), "input_cost_per_second") THEN KeptAs(n, "audio_transcription")
    ELSE IF IsTts(n) THEN KeptAs(n, "audio_speech")
    ELSE Discarded(n)

\* C6, amended: a record with input_cost_per_token is kept with mode chat;
\* else one with input_cost_per_second with mode audio_transcription; else
\* one whose identifier contains "tts" is kept, with mode audio_speech, only
\* when it has input_cost_per_character; every other record is discarded, and
\* the output holds no record but those.
C6_ModeByPresence ==
  /\ \A n \in Visited :
       IF HasKey(Unioned(n), "input_cost_per_token") THEN KeptAs(n, "chat")
       ELSE IF HasKey(Unioned(n), "input_cost_per_second")
       THEN KeptAs(n, "audio_transcription")
       ELSE IF IsTts(n) /\ HasKey(Unioned(n), "input_cost_per_character")
       THEN KeptAs(n, "audio_speech")
       ELSE Discarded(n)
  /\ \A i \in 1..Len(total) : \E n \in Visited : total[i].id = GroqPrefix \o n

\* C6's case: the aggregator has returned, having discarded a record whose
\* identifier contains "tts" and that has no cost field, and kept a record
\* with mode chat.
C6_Witness ==
  /\ apc = "returned"
  /\ \E n \in AllModels :
       /\ IsTts(n)
       /\ ~HasKey(Unioned(n), "input_cost_per_token")
       /\ ~HasKey(Unioned(n), "input_cost_per_second")
       /\ ~HasKey(Unioned(n), "input_cost_per_character")
       /\ Discarded(n)
  /\ \E n \in AllModels : KeptAs(n, "chat")

\* The fields of col_map of a kind, and the text of the cells of a row.
FieldsOfKind(kind) ==
  {col_map[i].k : i \in {j \in 1..Len(col_map) : FieldKind(col_map[j].k) = kind}}

RowText(r) == CellText(rows[r].text)

Yes == <<"y", "e", "s">>
No == <<"n", "o">>

\* C7: boolean parsing is strict: for every "supports" field, a cell whose
\* trimmed, lower-cased text is "yes" yields true, one whose text is "no"
\* yields false, and any other text makes the extraction fail, so that no
\* row with such a text gives a record.
C7_StrictBoolean ==
  \A r \in 1..Len(row_results) :
    \A f \in FieldsOfKind("supports") :
      /\ RowText(r) \in {Yes, No}
      /\ HasKey(row_results[r].rec, f)
      /\ Get(row_results[r].rec, f) = (RowText(r) = Yes)

\* The token count as the claim reads a text: the commas stripped and a "k"
\* that is the last character expanded to "000".
ClaimedTokens(text_) ==
  LET c == Replace(text_, ",", <<>>)
  IN IF c # <<>> /\ c[Len(c)] = "k" THEN SubSeq(c, 1, Len(c) - 1) \o <<"0", "0", "0">> ELSE c

\* C8: token-count parsing: for every "tokens" field, the value is the
\* integer read after stripping commas and expanding only a trailing "k";
\* a text that is not digits only after that is left out of the record, and
\* no error is raised for it.
C8_TokenParsing ==
  /\ \A r \in 1..Len(row_results) :
       \A f \in FieldsOfKind("tokens") :
         LET c == ClaimedTokens(RowText(r))
         IN IF IsDigit(c)
            THEN HasKey(row_results[r].rec, f) /\ Get(row_results[r].rec, f) = IntOf(c)
            ELSE ~HasKey(row_results[r].rec, f)
  /\ (xpc = "raised" /\ row_i >= 1) =>
       \/ ~ModelName(col_map, RowCells(rows[row_i], Len(th))).ok
       \/ FieldsOfKind("supports") # {}

\* The index (from 0) of the first header that contains the label, or -1.
FirstHeader(label) ==
  IF \E i \in 1..Len(th) : Contains(ColNames[i], label)
  THEN (CHOOSE i \in 1..Len(th) :
          /\ Contains(ColNames[i], label)
          /\ \A j \in 1..(i - 1) : ~Contains(ColNames[j], label)) - 1
  ELSE -1

\* C9: column resolution: every desired field gets the index of the first
\* header, left to right, whose lower-cased text contains the field's label,
\* also when several headers contain it; and an index that col_map_input
\* gives for a field is used whatever the headers are.
C9_FirstHeaderWins ==
  xpc \in {"rows", "returned", "raised"} =>
    \A d \in 1..Len(desired_col_names) :
      LET label == desired_col_names[d][1]
          f == desired_col_names[d][2]
      IN IF HasKey(col_map_input, f) THEN Get(col_map, f) = Get(col_map_input, f)
         ELSE IF FirstHeader(label) >= 0
         THEN HasKey(col_map, f) /\ Get(col_map, f) = FirstHeader(label)
         ELSE ~HasKey(col_map, f)

\* A text is one well-formed top-level object when it parses as one, and an
\* identifier appears once in it when one position holds its key.
WellFormed(text) == JsonLoads(text).ok

AppearsOnce(text, id) == Cardinality(KeyPositions(text, id)) = 1

\* C11: well-formedness is kept by the insert pass: when the text the pass
\* starts from is one well-formed top-level object with every identifier
\* once, the text it returns is again one well-formed top-level object (every
\* block inside the top-level braces), every identifier appears exactly once
\* in it, and its identifiers are the local ones plus the remote ones; also
\* when a new identifier sorts after every local one and when the updated
\* identifier is the last entry of the file.
C11_InsertKeepsWellFormed ==
  (/\ pc = "deprecate"
   /\ WellFormed(raw_loaded)
   /\ \A id \in TextIds(raw_loaded) : AppearsOnce(raw_loaded, id)) =>
    /\ WellFormed(raw_inserted)
    /\ TextIds(raw_inserted) = LocalIds \cup RemoteIds
    /\ \A id \in TextIds(raw_inserted) : AppearsOnce(raw_inserted, id)

====
